---- MODULE Spec2Model ----
(***************************************************************************)
(* Model of the Eden AI client (src/src/lib/edenai.ts): the two entry      *)
(* points detectAIContent and detectPlagiarism, the credential check, the  *)
(* single axios request, the classification of its failure, the            *)
(* normalisation of a successful response, and the two mock generators.    *)
(*                                                                         *)
(* Texts, credentials and titles are sequences of one-character strings,   *)
(* so that trim() and split() are computed character by character.         *)
(* Error messages are TLA+ strings.  Fractional scores are in hundredths   *)
(* (0.5 is 50, 0.85 is 85); Math.random() returns r/100 for r in RandVals. *)
(***************************************************************************)
EXTENDS Integers, Sequences, FiniteSets, TLC

VARIABLES env, pc, op, text, title, useMockData, requests, reply, outcome,
          form, formText, selectedFile, isProcessing, validationError,
          isLoading, jobs, done

\* the state of an upload form (src/src/app/page.tsx): form names the
\* component, formText is its text prop, jobs holds the handleFileChange
\* calls that are suspended at an await, done describes the last
\* handleFileChange call that ran to its end
formVars == <<form, formText, selectedFile, isProcessing, validationError,
              isLoading, jobs, done>>

vars == <<env, pc, op, text, title, useMockData, requests, reply, outcome,
          form, formText, selectedFile, isProcessing, validationError,
          isLoading, jobs, done>>

(* ------------------------------ bounds --------------------------------- *)

\* longest text enumerated character by character
MaxLen == 4

\* largest number of sentences in the long texts given to the plagiarism mock
MaxSegs == 6

\* characters the enumerated texts are made of
Alphabet == {"a", ".", "?", " "}

\* sample values of Math.random(), in hundredths, for the draws made once
\* per call
RandVals == {0, 50, 99}

\* sample values of Math.random() for the draws made once per item
ItemRandVals == {0, 99}

(* --------------------------- characters -------------------------------- *)

\* characters matched by \s and removed by trim()
WhiteSpace == {" ", "\t", "\n"}

\* the sentence-ending characters of the split pattern
Delimiters == {".", "?", "!"}

SampleAIText == <<"S", "a", "m", "p", "l", "e", " ", "t", "e", "x", "t", " ", "f", "o", "r", " ", "A", "I", " ", "d", "e", "t", "e", "c", "t", "i", "o", "n">>

SamplePlagiarismText == <<"S", "a", "m", "p", "l", "e", " ", "t", "e", "x", "t", " ", "f", "o", "r", " ", "p", "l", "a", "g", "i", "a", "r", "i", "s", "m", " ", "d", "e", "t", "e", "c", "t", "i", "o", "n">>

(* ------------------------- string functions ---------------------------- *)

RECURSIVE TrimStart(_)
TrimStart(s) ==
  IF s # <<>> /\ Head(s) \in WhiteSpace THEN TrimStart(Tail(s)) ELSE s

RECURSIVE TrimEnd(_)
TrimEnd(s) ==
  IF s # <<>> /\ s[Len(s)] \in WhiteSpace
  THEN TrimEnd(SubSeq(s, 1, Len(s) - 1)) ELSE s

\* String.prototype.trim
Trim(s) == TrimEnd(TrimStart(s))

\* the pattern /(?<=\.|\?|\!)\s+/ matches at index q: the character before q
\* is a delimiter and the character at q is white space
MatchesAt(s, q) ==
  /\ q >= 2
  /\ q <= Len(s)
  /\ s[q - 1] \in Delimiters
  /\ s[q] \in WhiteSpace

\* \s+ is greedy: the index after the white-space run that starts at q
RECURSIVE RunEnd(_, _)
RunEnd(s, q) ==
  IF q <= Len(s) /\ s[q] \in WhiteSpace THEN RunEnd(s, q + 1) ELSE q

\* String.prototype.split with the pattern: p is the start of the current
\* fragment, q the index where the next match is tried
RECURSIVE SplitFrom(_, _, _, _)
SplitFrom(s, p, q, acc) ==
  IF q > Len(s) THEN Append(acc, SubSeq(s, p, Len(s)))
  ELSE IF MatchesAt(s, q)
       THEN SplitFrom(s, RunEnd(s, q), RunEnd(s, q),
                      Append(acc, SubSeq(s, p, q - 1)))
       ELSE SplitFrom(s, p, q + 1, acc)

Split(s) == SplitFrom(s, 1, 1, <<>>)

\* mutation of NonBlank: the filter keeps every fragment
NonBlank_mutant(segment) == TRUE

\* filter(segment => segment.trim().length > 0)
NonBlank(segment) == Len(Trim(segment)) > 0

Segments(s) == SelectSeq(Split(s), NonBlank)

\* mutation of ProcessedSegments: no fallback segment
ProcessedSegments_mutant(s, sample) == Segments(s)

\* segments.length > 0 ? segments : [text || sample]
ProcessedSegments(s, sample) ==
  IF Len(Segments(s)) > 0 THEN Segments(s)
  ELSE << IF s # <<>> THEN s ELSE sample >>

(* ---------------------------- Math.random ------------------------------ *)

\* Math.floor(r * n) for r = v/100
FloorTimes(v, n) == (v * n) \div 100

Max(a, b) == IF a >= b THEN a ELSE b

Min(a, b) == IF a <= b THEN a ELSE b

(* ------------------------ getMockAIDetectionData ----------------------- *)

\* one element of items; rp, rs, rd are the three draws of the segment
MockAIItem(segment, rp, rs, rd) ==
  [ text            |-> segment,
    prediction      |-> IF rp > 50 THEN "ai-generated" ELSE "human",
    ai_score        |-> rs,
    ai_score_detail |-> rd ]

\* draws[i] = <<rp, rs, rd>> are the draws made for segment i
getMockAIDetectionData(s, draws) ==
  LET processedSegments == ProcessedSegments(s, SampleAIText) IN
  [ winstonai |->
      [ ai_score |-> 50,
        items    |-> [ i \in 1..Len(processedSegments) |->
                         MockAIItem(processedSegments[i],
                                    draws[i][1], draws[i][2], draws[i][3]) ],
        cost     |-> 0 ] ]

(* ------------------------ getMockPlagiarismData ------------------------ *)

realisticSources ==
  << [ url     |-> "https://scholar.google.com/scholar?q=artificial+intelligence+ethics",
       content |-> "The ethical implications of artificial intelligence have become increasingly important as AI systems become more sophisticated and integrated into society.",
       score   |-> 85 ],
     [ url     |-> "https://www.researchgate.net/publication/ai-ethics-2023",
       content |-> "Recent developments in AI have raised significant concerns about bias, privacy, and accountability in automated decision-making systems.",
       score   |-> 92 ],
     [ url     |-> "https://www.sciencedirect.com/science/article/ai-society",
       content |-> "The impact of artificial intelligence on modern society extends beyond technological advancement to fundamental changes in how we work and interact.",
       score   |-> 78 ],
     [ url     |-> "https://www.jstor.org/stable/ai-research",
       content |-> "As AI systems become more prevalent, questions about their governance and regulation have come to the forefront of public discourse.",
       score   |-> 88 ],
     [ url     |-> "https://www.medium.com/ai-ethics",
       content |-> "The development of ethical AI requires collaboration between technologists, policymakers, and ethicists to ensure responsible innovation.",
       score   |-> 75 ] >>

\* mutation of NumItems: the cap is drawn from 2..4
NumItems_mutant(processedSegments, r) ==
  Min(Len(processedSegments), FloorTimes(r, 3) + 2)

\* Math.min(processedSegments.length, Math.max(3, Math.floor(r * 3) + 3))
NumItems(processedSegments, r) ==
  Min(Len(processedSegments), Max(3, FloorTimes(r, 3) + 3))

\* Math.floor(r * 2) + 1
NumCandidates(r) == FloorTimes(r, 2) + 1

\* the candidate pushed for the draw r of randomSource
MockCandidate(r) ==
  LET randomSource == realisticSources[FloorTimes(r, Len(realisticSources)) + 1] IN
  [ url              |-> randomSource.url,
    plagia_score     |-> randomSource.score,
    prediction       |-> IF randomSource.score > 70 THEN "plagiarized"
                         ELSE "original",
    plagiarized_text |-> randomSource.content ]

\* the candidates arrays the inner loop can build: one draw for their number,
\* one draw per candidate
CandidateLists ==
  UNION { [ 1..NumCandidates(rn) -> { MockCandidate(r) : r \in ItemRandVals } ]
          : rn \in ItemRandVals }

\* Math.floor(r * 40) + 5
MockPlagiaScore(r) == FloorTimes(r, 40) + 5

\* rItems is the draw of numItems, cands[i] the candidates built for item i,
\* rScore the draw of the overall score
getMockPlagiarismData(s, rItems, cands, rScore) ==
  LET processedSegments == ProcessedSegments(s, SamplePlagiarismText)
      numItems          == NumItems(processedSegments, rItems)
      itemText(i)       == IF processedSegments[i] # <<>>
                           THEN processedSegments[i]
                           ELSE SamplePlagiarismText
  IN
  [ originalityai |->
      [ plagia_score |-> MockPlagiaScore(rScore),
        items        |-> [ i \in 1..numItems |->
                             [ text       |-> itemText(i),
                               candidates |-> cands[i] ] ],
        cost         |-> 0 ] ]

(* ------------------------------ JS values ------------------------------ *)

Undefined == [ t |-> "undefined" ]

Null == [ t |-> "null" ]

JSString(s) == [ t |-> "string", s |-> s ]

JSNumber(n) == [ t |-> "number", n |-> n ]

\* an object: fields maps the keys it has to their values
JSObject(fields) == [ t |-> "object", fields |-> fields ]

\* key in obj
HasKey(v, key) == v.t = "object" /\ key \in DOMAIN v.fields

(* ------------------------------- inputs -------------------------------- *)

RECURSIVE SeqsUpTo(_, _)
SeqsUpTo(S, n) ==
  IF n = 0 THEN { <<>> }
  ELSE LET shorter == SeqsUpTo(S, n - 1) IN
       shorter \cup { Append(s, c) : s \in { x \in shorter : Len(x) = n - 1 }, c \in S }

\* every text of at most MaxLen characters
ShortTexts == SeqsUpTo(Alphabet, MaxLen)

RECURSIVE Sentences(_)
Sentences(n) == IF n = 0 THEN <<>> ELSE Sentences(n - 1) \o <<"a", "!", "\n">>

\* texts of more than three sentences, where the item cap of the plagiarism
\* mock shows
LongTexts == { Sentences(n) : n \in 4..MaxSegs }

NoOutcome == [ kind |-> "none" ]

Returned(value) == [ kind |-> "returned", value |-> value ]

\* tag names the throw statement that ended the call, message is the message
\* of the Error it threw
Thrown(tag, message) == [ kind |-> "thrown", tag |-> tag, message |-> message ]

NoReply == [ kind |-> "none" ]

(* ------------------------- files and form state ----------------------- *)

PdfType == "application/pdf"

DocxType == "application/vnd.openxmlformats-officedocument.wordprocessingml.document"

DocType == "application/msword"

\* a File: pages[i] is the list of item.str of page i of a PDF, content is
\* the raw text mammoth extracts, broken makes the library reject
File(type, pages, content, broken) ==
  [ type |-> type, pages |-> pages, content |-> content, broken |-> broken ]

\* selectedFile === null
NoFile == File("none", <<>>, <<>>, FALSE)

\* no handleFileChange call has ended yet
NoDone ==
  [ file |-> NoFile, read |-> FALSE, rejected |-> FALSE, hasExtracted |-> FALSE,
    extracted |-> <<>>, setText |-> FALSE, value |-> <<>>, error |-> <<>> ]

\* the state of the forms while the client alone is looked at
NoFormMounted ==
  /\ form = "none"
  /\ formText = <<>>
  /\ selectedFile = NoFile
  /\ isProcessing = FALSE
  /\ validationError = Null
  /\ isLoading = FALSE
  /\ jobs = <<>>
  /\ done = NoDone

(* ----------------------------- credential ------------------------------ *)

\* values of process.env.NEXT_PUBLIC_EDEN_AI_API_KEY at process start
EnvValues ==
  { Undefined, JSString(<<>>), JSString(<<" ">>), JSString(<<"\t", " ">>),
    JSString(<<"k", "1">>), JSString(<<" ", "k", " ">>) }

\* const API_KEY = process.env.NEXT_PUBLIC_EDEN_AI_API_KEY || ""
API_KEY == IF env = Undefined \/ env.s = <<>> THEN <<>> ELSE env.s

\* mutation of validateApiKey: the key is not trimmed
validateApiKey_mutant(apiKey) == Len(apiKey) > 0

\* typeof apiKey === 'string' && apiKey.trim().length > 0
validateApiKey(apiKey) == Len(Trim(apiKey)) > 0

(* ------------------------------ messages ------------------------------- *)

InvalidApiKeyMessage ==
  "Invalid API key. Please check your EDEN_AI_API_KEY environment variable."

CreditsExhaustedMessage ==
  "API credits exhausted. The demo is currently unavailable due to reaching API usage limits."

NoResponseMessage ==
  "No response received from server. Please check your network connection."

(* ------------------------------ requests ------------------------------- *)

BearerPrefix == <<"B", "e", "a", "r", "e", "r", " ">>

AIDetectionOptions(s) ==
  [ method        |-> "POST",
    url           |-> "https://api.edenai.run/v2/text/ai_detection",
    Authorization |-> BearerPrefix \o API_KEY,
    ContentType   |-> "application/json",
    data          |-> [ providers |-> "winstonai", text |-> s,
                        fallback_providers |-> <<>> ] ]

PlagiarismOptions(s, t) ==
  [ method        |-> "POST",
    url           |-> "https://api.edenai.run/v2/text/plagia_detection",
    Authorization |-> BearerPrefix \o API_KEY,
    ContentType   |-> "application/json",
    data          |-> [ providers |-> "originalityai", text |-> s, title |-> t ] ]

(* ------------------------- errors axios rejects with ------------------- *)

\* the value caught by the catch block: response is Undefined or the
\* response record, request tells whether the error carries a request
CaughtError(isAxiosError, isError, message, response, request) ==
  [ isAxiosError |-> isAxiosError, isError |-> isError, message |-> message,
    response |-> response, request |-> request ]

AxiosResponse(status, data) == [ t |-> "response", status |-> status, data |-> data ]

\* keys of an error body in the order JSON.stringify writes them
ErrorKeyOrder == << "message", "error", "detail", "No more credits", "code" >>

RECURSIVE StringifyFields(_, _, _)
StringifyFields(fields, i, first) ==
  IF i > Len(ErrorKeyOrder) THEN ""
  ELSE IF ErrorKeyOrder[i] \in DOMAIN fields
       THEN (IF first THEN "" ELSE ",")
            \o "\"" \o ErrorKeyOrder[i] \o "\":\"" \o fields[ErrorKeyOrder[i]] \o "\""
            \o StringifyFields(fields, i + 1, FALSE)
       ELSE StringifyFields(fields, i + 1, first)

\* JSON.stringify of a value other than undefined
JSONStringify(v) ==
  CASE v.t = "null"   -> "null"
    [] v.t = "string" -> "\"" \o v.s \o "\""
    [] v.t = "number" -> ToString(v.n)
    [] v.t = "object" -> "{" \o StringifyFields(v.fields, 1, TRUE) \o "}"

\* JSON.stringify(errorData) || 'Unknown error'
StringifyOrUnknown(v) ==
  IF v.t = "undefined" THEN "Unknown error" ELSE JSONStringify(v)

\* errorData && typeof errorData === 'object'
IsTruthyObject(v) == v.t = "object"

\* the body is an object with one of the keys the catch blocks look for
RecognisedIn(errorData) ==
  /\ IsTruthyObject(errorData)
  /\ \E key \in {"message", "error", "detail", "No more credits"} : HasKey(errorData, key)

\* detectAIContent: the fallback message built from the status and the body
detectAIContentApiError(response) ==
  Thrown("RemoteRejected",
         "API Error (" \o ToString(response.status) \o "): "
         \o StringifyOrUnknown(response.data))

\* mutation of detectAIContentBodyError: detail is looked up before error
detectAIContentBodyError_mutant(response) ==
  LET errorData == response.data IN
  IF IsTruthyObject(errorData) /\ HasKey(errorData, "message")
  THEN Thrown("RemoteRejected", errorData.fields["message"])
  ELSE IF IsTruthyObject(errorData) /\ HasKey(errorData, "detail")
  THEN Thrown("RemoteRejected", errorData.fields["detail"])
  ELSE IF IsTruthyObject(errorData) /\ HasKey(errorData, "error")
  THEN Thrown("RemoteRejected", errorData.fields["error"])
  ELSE IF IsTruthyObject(errorData) /\ HasKey(errorData, "No more credits")
  THEN Thrown("QuotaExhausted", CreditsExhaustedMessage)
  ELSE detectAIContentApiError(response)

\* detectAIContent: the error thrown for the body of a response whose status is not 402
detectAIContentBodyError(response) ==
  LET errorData == response.data IN
  IF IsTruthyObject(errorData) /\ HasKey(errorData, "message")
  THEN Thrown("RemoteRejected", errorData.fields["message"])
  ELSE IF IsTruthyObject(errorData) /\ HasKey(errorData, "error")
  THEN Thrown("RemoteRejected", errorData.fields["error"])
  ELSE IF IsTruthyObject(errorData) /\ HasKey(errorData, "detail")
  THEN Thrown("RemoteRejected", errorData.fields["detail"])
  ELSE IF IsTruthyObject(errorData) /\ HasKey(errorData, "No more credits")
  THEN Thrown("QuotaExhausted", CreditsExhaustedMessage)
  ELSE detectAIContentApiError(response)

\* detectAIContent: the error thrown when the caught error carries a response
detectAIContentResponseError(response) ==
  IF response.status = 402
  THEN Thrown("QuotaExhausted", CreditsExhaustedMessage)
  ELSE detectAIContentBodyError(response)

\* mutation of detectAIContentCatch: the request is not looked at
detectAIContentCatch_mutant(error) ==
  IF error.isAxiosError /\ error.response # Undefined
  THEN detectAIContentResponseError(error.response)
  ELSE Thrown("LocalFailure",
              "Error: " \o (IF error.isError THEN error.message
                            ELSE "Unknown error occurred"))

\* the catch block of detectAIContent: the Error it throws
detectAIContentCatch(error) ==
  IF error.isAxiosError /\ error.response # Undefined
  THEN detectAIContentResponseError(error.response)
  ELSE IF error.isAxiosError /\ error.request
  THEN Thrown("NoResponse", NoResponseMessage)
  ELSE Thrown("LocalFailure",
              "Error: " \o (IF error.isError THEN error.message
                            ELSE "Unknown error occurred"))

\* mutation of detectPlagiarismApiError: the status is left out
detectPlagiarismApiError_mutant(response) ==
  Thrown("RemoteRejected", "API Error: " \o StringifyOrUnknown(response.data))

\* detectPlagiarism: the fallback message built from the status and the body
detectPlagiarismApiError(response) ==
  Thrown("RemoteRejected",
         "API Error (" \o ToString(response.status) \o "): "
         \o StringifyOrUnknown(response.data))

\* detectPlagiarism: the error thrown for the body of a response whose status is not 402
detectPlagiarismBodyError(response) ==
  LET errorData == response.data IN
  IF IsTruthyObject(errorData) /\ HasKey(errorData, "message")
  THEN Thrown("RemoteRejected", errorData.fields["message"])
  ELSE IF IsTruthyObject(errorData) /\ HasKey(errorData, "error")
  THEN Thrown("RemoteRejected", errorData.fields["error"])
  ELSE IF IsTruthyObject(errorData) /\ HasKey(errorData, "detail")
  THEN Thrown("RemoteRejected", errorData.fields["detail"])
  ELSE IF IsTruthyObject(errorData) /\ HasKey(errorData, "No more credits")
  THEN Thrown("QuotaExhausted", CreditsExhaustedMessage)
  ELSE detectPlagiarismApiError(response)

\* mutation of detectPlagiarismResponseError: the body is looked at before
\* the status
detectPlagiarismResponseError_mutant(response) ==
  IF RecognisedIn(response.data)
  THEN detectPlagiarismBodyError(response)
  ELSE IF response.status = 402
  THEN Thrown("QuotaExhausted", CreditsExhaustedMessage)
  ELSE detectPlagiarismBodyError(response)

\* detectPlagiarism: the error thrown when the caught error carries a response
detectPlagiarismResponseError(response) ==
  IF response.status = 402
  THEN Thrown("QuotaExhausted", CreditsExhaustedMessage)
  ELSE detectPlagiarismBodyError(response)

\* the catch block of detectPlagiarism: the Error it throws
detectPlagiarismCatch(error) ==
  IF error.isAxiosError /\ error.response # Undefined
  THEN detectPlagiarismResponseError(error.response)
  ELSE IF error.isAxiosError /\ error.request
  THEN Thrown("NoResponse", NoResponseMessage)
  ELSE Thrown("LocalFailure",
              "Error: " \o (IF error.isError THEN error.message
                            ELSE "Unknown error occurred"))

(* ----------------------- the successful response ---------------------- *)

TypeName(v) == IF v.t = "string" THEN "string" ELSE "number"

Shown(v) == IF v.t = "string" THEN v.s ELSE ToString(v.n)

\* the TypeError of reading data[key] when data is null or undefined, and of
\* assigning data[key] when data is a primitive (module code is strict)
PropertyTypeError(data, key) ==
  CaughtError(FALSE, TRUE,
    IF data.t \in {"undefined", "null"}
    THEN "Cannot read properties of " \o data.t \o " (reading '" \o key \o "')"
    ELSE "Cannot create property '" \o key \o "' on " \o TypeName(data)
         \o " '" \o Shown(data) \o "'",
    Undefined, FALSE)

\* !data[key] for an object: the key is missing or its value is falsy
LacksProvider(data, key) == ~HasKey(data, key) \/ data.fields[key] = Null

\* data[key] = placeholder
WithProvider(data, key, placeholder) ==
  JSObject([ k \in DOMAIN data.fields \cup {key} |->
               IF k = key THEN placeholder ELSE data.fields[k] ])

AIPlaceholder == [ ai_score |-> 0, items |-> <<>>, cost |-> 0 ]

PlagiarismPlaceholder == [ plagia_score |-> 0, items |-> <<>>, cost |-> 0 ]

\* mutation of NormalizeAIResponse: a record the provider sent is cleared
NormalizeAIResponse_mutant(data) ==
  IF LacksProvider(data, "winstonai")
  THEN WithProvider(data, "winstonai", AIPlaceholder)
  ELSE WithProvider(data, "winstonai", Null)

\* if (!data.winstonai) { data.winstonai = {...} }, for an object
NormalizeAIResponse(data) ==
  IF LacksProvider(data, "winstonai")
  THEN WithProvider(data, "winstonai", AIPlaceholder) ELSE data

\* mutation of NormalizePlagiarismResponse: the key of the other capability
NormalizePlagiarismResponse_mutant(data) ==
  IF LacksProvider(data, "winstonai")
  THEN WithProvider(data, "winstonai", PlagiarismPlaceholder) ELSE data

\* if (!data.originalityai) { data.originalityai = {...} }, for an object
NormalizePlagiarismResponse(data) ==
  IF LacksProvider(data, "originalityai")
  THEN WithProvider(data, "originalityai", PlagiarismPlaceholder) ELSE data

\* detectAIContent after the await resolved with response.data = data
detectAIContentResolved(data) ==
  IF data.t = "object" THEN Returned(NormalizeAIResponse(data))
  ELSE detectAIContentCatch(PropertyTypeError(data, "winstonai"))

\* detectPlagiarism after the await resolved with response.data = data
detectPlagiarismResolved(data) ==
  IF data.t = "object" THEN Returned(NormalizePlagiarismResponse(data))
  ELSE detectPlagiarismCatch(PropertyTypeError(data, "originalityai"))

(* -------------------------- what the network does ---------------------- *)

\* statuses axios resolves with, and statuses it rejects with
SuccessStatuses == {200}

ErrorStatuses == {400, 402, 500}

\* values an object of a successful response holds under a key
ProviderValues ==
  { Null,
    [ ai_score |-> 87, items |-> <<>>, cost |-> 1 ],
    [ plagia_score |-> 12, items |-> <<>>, cost |-> 2 ] }

ProviderKeys == {"winstonai", "originalityai", "openai"}

\* bodies that are not objects; axios delivers an absent body as the empty
\* string
NonObjectBodies ==
  { Null, JSString(""), JSString("Bad Gateway"), JSNumber(0) }

SuccessBodies ==
  NonObjectBodies \cup
  UNION { { JSObject(f) : f \in [K -> ProviderValues] } : K \in SUBSET ProviderKeys }

ErrorKeys == {"message", "error", "detail", "No more credits", "code"}

ErrorBodies ==
  NonObjectBodies \cup
  UNION { { JSObject(f) : f \in [K -> {"X", "Y"}] } : K \in SUBSET ErrorKeys }

\* errors raised before anything is sent: an AxiosError without request, a
\* plain Error, a thrown value that is not an Error
SetupErrors ==
  { CaughtError(TRUE, TRUE, "Invalid URL", Undefined, FALSE),
    CaughtError(FALSE, TRUE, "Converting circular structure to JSON", Undefined, FALSE),
    CaughtError(FALSE, FALSE, "", Undefined, FALSE) }

\* texts and titles the entry points are called with
CallTexts == { <<>>, <<" ">>, <<"a", ".">>, <<"a", ".", " ", "a", "?">> }

CallTitles == { <<>>, <<"T">> }

(* ------------------------------ the program ---------------------------- *)

Init ==
  /\ env \in EnvValues
  /\ pc = "idle"
  /\ op = "none"
  /\ text = <<>>
  /\ title = <<>>
  /\ useMockData = FALSE
  /\ requests = <<>>
  /\ reply = NoReply
  /\ outcome = NoOutcome
  /\ NoFormMounted

\* detectAIContent(s, mock) up to its return, its throw or its await
detectAIContent(s, mock) ==
  /\ pc = "idle"
  /\ op' = "ai"
  /\ text' = s
  /\ title' = <<>>
  /\ useMockData' = mock
  /\ reply' = NoReply
  /\ IF mock
     THEN /\ \E draws \in [ 1..Len(ProcessedSegments(s, SampleAIText))
                            -> ItemRandVals \X ItemRandVals \X ItemRandVals ] :
               outcome' = Returned(JSObject(getMockAIDetectionData(s, draws)))
          /\ pc' = "returned"
          /\ requests' = <<>>
     ELSE IF ~validateApiKey(API_KEY)
     THEN /\ outcome' = Thrown("InvalidCredential", InvalidApiKeyMessage)
          /\ pc' = "thrown"
          /\ requests' = <<>>
     ELSE /\ outcome' = NoOutcome
          /\ pc' = "awaiting"
          /\ requests' = << AIDetectionOptions(s) >>
  /\ UNCHANGED env
  /\ UNCHANGED formVars

\* detectPlagiarism(s, t, mock) up to its return, its throw or its await
detectPlagiarism(s, t, mock) ==
  /\ pc = "idle"
  /\ op' = "plagiarism"
  /\ text' = s
  /\ title' = t
  /\ useMockData' = mock
  /\ reply' = NoReply
  /\ IF mock
     THEN /\ \E rItems \in RandVals, rScore \in RandVals :
               \E cands \in [ 1..NumItems(ProcessedSegments(s, SamplePlagiarismText), rItems)
                              -> CandidateLists ] :
                 outcome' = Returned(JSObject(getMockPlagiarismData(s, rItems, cands, rScore)))
          /\ pc' = "returned"
          /\ requests' = <<>>
     ELSE IF ~validateApiKey(API_KEY)
     THEN /\ outcome' = Thrown("InvalidCredential", InvalidApiKeyMessage)
          /\ pc' = "thrown"
          /\ requests' = <<>>
     ELSE /\ outcome' = NoOutcome
          /\ pc' = "awaiting"
          /\ requests' = << PlagiarismOptions(s, t) >>
  /\ UNCHANGED env
  /\ UNCHANGED formVars

\* the rest of the call once axios has settled with the error or the data
Settle(caught, resolvedData) ==
  outcome' =
    IF caught # Undefined
    THEN IF op = "ai" THEN detectAIContentCatch(caught)
         ELSE detectPlagiarismCatch(caught)
    ELSE IF op = "ai" THEN detectAIContentResolved(resolvedData)
         ELSE detectPlagiarismResolved(resolvedData)

\* the provider answers with a 2xx status: the await resolves
ResponseSucceeds ==
  /\ pc = "awaiting"
  /\ \E status \in SuccessStatuses, data \in SuccessBodies :
       /\ reply' = [ kind |-> "response", status |-> status, data |-> data ]
       /\ Settle(Undefined, data)
  /\ pc' = IF outcome'.kind = "returned" THEN "returned" ELSE "thrown"
  /\ UNCHANGED <<env, op, text, title, useMockData, requests>>
  /\ UNCHANGED formVars

\* the provider answers with another status: axios rejects with the response
ResponseFails ==
  /\ pc = "awaiting"
  /\ \E status \in ErrorStatuses, data \in ErrorBodies :
       /\ reply' = [ kind |-> "response", status |-> status, data |-> data ]
       /\ Settle(CaughtError(TRUE, TRUE, "Request failed with status code "
                                          \o ToString(status),
                             AxiosResponse(status, data), TRUE), Undefined)
  /\ pc' = "thrown"
  /\ UNCHANGED <<env, op, text, title, useMockData, requests>>
  /\ UNCHANGED formVars

\* the request was sent and nothing came back: axios rejects with the request
NoResponseArrives ==
  /\ pc = "awaiting"
  /\ reply' = [ kind |-> "noResponse" ]
  /\ Settle(CaughtError(TRUE, TRUE, "Network Error", Undefined, TRUE), Undefined)
  /\ pc' = "thrown"
  /\ UNCHANGED <<env, op, text, title, useMockData, requests>>
  /\ UNCHANGED formVars

\* axios.request fails before anything is sent
RequestNotSent ==
  /\ pc = "awaiting"
  /\ \E e \in SetupErrors :
       /\ reply' = [ kind |-> "notSent", error |-> e ]
       /\ Settle(e, Undefined)
  /\ pc' = "thrown"
  /\ UNCHANGED <<env, op, text, title, useMockData, requests>>
  /\ UNCHANGED formVars

Next ==
  \/ \E s \in CallTexts, mock \in BOOLEAN : detectAIContent(s, mock)
  \/ \E s \in CallTexts, t \in CallTitles, mock \in BOOLEAN : detectPlagiarism(s, t, mock)
  \/ ResponseSucceeds
  \/ ResponseFails
  \/ NoResponseArrives
  \/ RequestNotSent

Spec == Init /\ [][Next]_vars

(* ------------- the mock generators applied to bounded inputs ----------- *)

InitMock ==
  /\ env = Undefined
  /\ pc = "idle"
  /\ op = "none"
  /\ text = <<>>
  /\ title = <<>>
  /\ useMockData = FALSE
  /\ requests = <<>>
  /\ reply = NoReply
  /\ outcome = NoOutcome
  /\ NoFormMounted

ApplyMockAI ==
  /\ pc = "idle"
  /\ \E s \in ShortTexts :
       \E draws \in [ 1..Len(ProcessedSegments(s, SampleAIText))
                      -> ItemRandVals \X ItemRandVals \X ItemRandVals ] :
         /\ text' = s
         /\ outcome' = Returned(JSObject(getMockAIDetectionData(s, draws)))
  /\ op' = "ai"
  /\ pc' = "returned"
  /\ UNCHANGED <<env, title, useMockData, requests, reply>>
  /\ UNCHANGED formVars

ApplyMockPlagiarism ==
  /\ pc = "idle"
  /\ \E s \in ShortTexts \cup LongTexts, rItems \in RandVals, rScore \in RandVals :
       \E cands \in [ 1..NumItems(ProcessedSegments(s, SamplePlagiarismText), rItems)
                      -> CandidateLists ] :
         /\ text' = s
         /\ outcome' = Returned(JSObject(getMockPlagiarismData(s, rItems, cands, rScore)))
  /\ op' = "plagiarism"
  /\ pc' = "returned"
  /\ UNCHANGED <<env, title, useMockData, requests, reply>>
  /\ UNCHANGED formVars

NextMock == ApplyMockAI \/ ApplyMockPlagiarism

SpecMock == InitMock /\ [][NextMock]_vars

(* ============================== properties ============================= *)

\* the provider key a capability expects
ExpectedKey == IF op = "ai" THEN "winstonai" ELSE "originalityai"

\* the credential is unset, empty or made of white space only
BlankCredential ==
  env = Undefined \/ \A i \in 1..Len(env.s) : env.s[i] \in WhiteSpace

\* C1: a call with useMock = false under a blank credential ends by throwing
\* InvalidCredential, and no request is issued at any point of the call.
C1_InvalidCredentialBeforeNetwork ==
  (op # "none" /\ ~useMockData /\ BlankCredential) =>
    /\ pc = "thrown"
    /\ outcome = Thrown("InvalidCredential", InvalidApiKeyMessage)
    /\ requests = <<>>
    /\ reply = NoReply

C1_Witness ==
  /\ op = "plagiarism"
  /\ ~useMockData
  /\ env = JSString(<<"\t", " ">>)
  /\ pc = "thrown"
  /\ outcome.tag = "InvalidCredential"

\* C2: a response with status 402 makes the call throw the quota-exhausted
\* message, whatever the body.
C2_Status402IsQuotaExhausted ==
  (reply.kind = "response" /\ reply.status = 402) =>
    /\ outcome.kind = "thrown"
    /\ outcome.message = CreditsExhaustedMessage

C2_Witness ==
  /\ op = "plagiarism"
  /\ reply.kind = "response"
  /\ reply.status = 402
  /\ HasKey(reply.data, "message")
  /\ HasKey(reply.data, "detail")
  /\ outcome.kind = "thrown"

KeyPriority == << "message", "error", "detail", "No more credits" >>

\* the keys of KeyPriority the body has
RecognisedKeys(data) ==
  IF data.t = "object"
  THEN { i \in 1..Len(KeyPriority) : KeyPriority[i] \in DOMAIN data.fields }
  ELSE {}

FirstRecognisedKey(data) ==
  KeyPriority[CHOOSE i \in RecognisedKeys(data) :
                \A j \in RecognisedKeys(data) : i <= j]

\* C3: a response with a status other than 402 and an object body throws the
\* value of the first key present in the order message, error, detail,
\* "No more credits" (the last one standing for the quota-exhausted message).
C3_KeyPriority ==
  (/\ reply.kind = "response"
   /\ reply.status \notin SuccessStatuses
   /\ reply.status # 402
   /\ RecognisedKeys(reply.data) # {}) =>
    /\ outcome.kind = "thrown"
    /\ outcome.message =
         IF FirstRecognisedKey(reply.data) = "No more credits"
         THEN CreditsExhaustedMessage
         ELSE reply.data.fields[FirstRecognisedKey(reply.data)]

C3_Witness ==
  /\ op = "ai"
  /\ reply.kind = "response"
  /\ reply.status = 500
  /\ reply.data.t = "object"
  /\ DOMAIN reply.data.fields = {"error", "detail", "No more credits"}
  /\ reply.data.fields["error"] = "Y"
  /\ reply.data.fields["detail"] = "X"
  /\ outcome.kind = "thrown"
  /\ outcome.message = "Y"

\* C4: once a response has arrived the call never ends in LocalFailure, and
\* a successful response makes the call return a result.
C4_NoLocalFailureAfterResponse ==
  reply.kind = "response" =>
    /\ outcome.kind = "thrown" => outcome.tag # "LocalFailure"
    /\ reply.status \in SuccessStatuses => outcome.kind = "returned"

\* C5: a successful response whose body is an object returns a result that
\* holds the expected provider key: the zero-valued placeholder when the
\* provider omitted the key, the provider's record when it supplied one;
\* every other key is as the provider sent it.
C5_ProviderKeyAlwaysPresent ==
  (/\ reply.kind = "response"
   /\ reply.status \in SuccessStatuses
   /\ reply.data.t = "object") =>
    /\ outcome.kind = "returned"
    /\ outcome.value.t = "object"
    /\ DOMAIN outcome.value.fields = DOMAIN reply.data.fields \cup {ExpectedKey}
    /\ ~HasKey(reply.data, ExpectedKey) =>
         outcome.value.fields[ExpectedKey] =
           IF op = "ai" THEN [ ai_score |-> 0, items |-> <<>>, cost |-> 0 ]
           ELSE [ plagia_score |-> 0, items |-> <<>>, cost |-> 0 ]
    /\ (HasKey(reply.data, ExpectedKey) /\ reply.data.fields[ExpectedKey] # Null) =>
         outcome.value.fields[ExpectedKey] = reply.data.fields[ExpectedKey]
    /\ \A k \in DOMAIN reply.data.fields \ {ExpectedKey} :
         outcome.value.fields[k] = reply.data.fields[k]

C5_Witness ==
  /\ op = "plagiarism"
  /\ reply.kind = "response"
  /\ reply.status = 200
  /\ reply.data.t = "object"
  /\ DOMAIN reply.data.fields = {"winstonai", "openai"}
  /\ reply.data.fields["winstonai"] # Null
  /\ outcome.kind = "returned"
  /\ outcome.value.fields["originalityai"].cost = 0

\* C6: a response with a status other than 402 whose body holds none of the
\* four recognised keys throws RemoteRejected, whose message carries the
\* status and the stringified body.
C6_RemoteRejectedCarriesStatusAndBody ==
  (/\ reply.kind = "response"
   /\ reply.status \notin SuccessStatuses
   /\ reply.status # 402
   /\ RecognisedKeys(reply.data) = {}) =>
    /\ outcome.kind = "thrown"
    /\ outcome.tag = "RemoteRejected"
    /\ outcome.message =
         "API Error (" \o ToString(reply.status) \o "): " \o JSONStringify(reply.data)

C6_Witness ==
  /\ op = "plagiarism"
  /\ reply.kind = "response"
  /\ reply.status = 500
  /\ reply.data = JSObject([ code |-> "X" ])
  /\ outcome.kind = "thrown"
  /\ outcome.message = "API Error (500): {\"code\":\"X\"}"

\* C7: a request that was sent and got no response ends the call, after that
\* single attempt, by throwing NoResponse.
C7_NoResponseSingleAttempt ==
  reply.kind = "noResponse" =>
    /\ pc = "thrown"
    /\ outcome = Thrown("NoResponse", NoResponseMessage)
    /\ Len(requests) = 1

C7_Witness ==
  /\ op = "ai"
  /\ reply.kind = "noResponse"
  /\ pc = "thrown"
  /\ outcome.tag = "NoResponse"
  /\ Len(requests) = 1

\* C8: with useMock = true a call returns, for any text and any credential,
\* without issuing a request; the result holds the expected provider key
\* with cost 0 and a non-empty item list.
C8_MockAlwaysReturns ==
  (op # "none" /\ useMockData) =>
    /\ pc = "returned"
    /\ outcome.kind = "returned"
    /\ requests = <<>>
    /\ reply = NoReply
    /\ HasKey(outcome.value, ExpectedKey)
    /\ outcome.value.fields[ExpectedKey].cost = 0
    /\ Len(outcome.value.fields[ExpectedKey].items) > 0

C8_Witness ==
  /\ op = "plagiarism"
  /\ useMockData
  /\ env = Undefined
  /\ text = <<" ">>
  /\ pc = "returned"
  /\ Len(outcome.value.fields["originalityai"].items) = 1

(* ---------------- segmentation, stated without scanning ---------------- *)

\* a delimiter at i followed by white space
SentenceBreak(s, i) ==
  /\ i \in 1..(Len(s) - 1)
  /\ s[i] \in Delimiters
  /\ s[i + 1] \in WhiteSpace

\* where a segment starts: at the first character, and at the first
\* character after the white space that follows a sentence break
SegmentStarts(s) ==
  { j \in 1..Len(s) :
      \/ j = 1
      \/ /\ s[j] \notin WhiteSpace
         /\ \E i \in 1..(j - 2) :
              /\ SentenceBreak(s, i)
              /\ \A m \in (i + 1)..(j - 1) : s[m] \in WhiteSpace }

\* a segment runs up to the next sentence break, or to the end of the text
SegmentEnd(s, a) ==
  CHOOSE e \in a..Len(s) :
    /\ SentenceBreak(s, e) \/ e = Len(s)
    /\ \A d \in a..(e - 1) : ~SentenceBreak(s, d)

ClaimedSegments(s) ==
  LET starts == SegmentStarts(s)
      nth(n) == CHOOSE a \in starts : Cardinality({ b \in starts : b < a }) = n - 1
  IN  [ n \in 1..Cardinality(starts) |-> SubSeq(s, nth(n), SegmentEnd(s, nth(n))) ]

HasDelimiter(s) == \E i \in 1..Len(s) : s[i] \in Delimiters

\* C9: for a text with a sentence-ending delimiter the AI-detection mock
\* returns one item per segment, in segment order, with the segment as its
\* text, and an overall ai_score of 0.5.
C9_MockAIOneItemPerSegment ==
  (op = "ai" /\ pc = "returned" /\ HasDelimiter(text)) =>
    LET result == outcome.value.fields["winstonai"] IN
    /\ Len(result.items) = Len(ClaimedSegments(text))
    /\ \A i \in 1..Len(result.items) :
         result.items[i].text = ClaimedSegments(text)[i]
    /\ result.ai_score = 50

C9_Witness ==
  /\ op = "ai"
  /\ pc = "returned"
  /\ text = << ".", " ", "?", " " >>
  /\ Len(outcome.value.fields["winstonai"].items) = 2
  /\ outcome.value.fields["winstonai"].items[2].text = << "?" >>

\* the segments of the plagiarism mock: the text itself stands for an empty
\* text's segment
ClaimedPlagiarismSegments(s) ==
  IF s = <<>> THEN << SamplePlagiarismText >> ELSE ClaimedSegments(s)

\* C10: the plagiarism mock returns min(segment count, k) items for some k
\* in 3..5, item i holding segment i; each item has 1 or 2 candidates, each
\* a copy of a pool record, predicted "plagiarized" exactly when its score
\* exceeds 0.7; the overall score is an integer n with 5 <= n < 45.
C10_MockPlagiarismShape ==
  (op = "plagiarism" /\ pc = "returned") =>
    LET result   == outcome.value.fields["originalityai"]
        segments == ClaimedPlagiarismSegments(text)
    IN
    /\ \E k \in {3, 4, 5} : Len(result.items) = Min(Len(segments), k)
    /\ \A i \in 1..Len(result.items) :
         /\ result.items[i].text = segments[i]
         /\ Len(result.items[i].candidates) \in {1, 2}
         /\ \A j \in 1..Len(result.items[i].candidates) :
              LET candidate == result.items[i].candidates[j] IN
              /\ \E n \in 1..Len(realisticSources) :
                   /\ candidate.url = realisticSources[n].url
                   /\ candidate.plagia_score = realisticSources[n].score
                   /\ candidate.plagiarized_text = realisticSources[n].content
              /\ candidate.prediction = "plagiarized" <=> candidate.plagia_score > 70
              /\ candidate.prediction \in {"plagiarized", "original"}
    /\ result.plagia_score \in 5..44

C10_Witness ==
  /\ op = "plagiarism"
  /\ pc = "returned"
  /\ text = Sentences(5)
  /\ Len(outcome.value.fields["originalityai"].items) = 4
  /\ Len(outcome.value.fields["originalityai"].items[4].candidates) = 2
  /\ outcome.value.fields["originalityai"].plagia_score = 44

\* C14: normalisation is idempotent for both capabilities: normalising the
\* result returned for a successful object response once more leaves it as
\* it is.
C14_NormalizeIdempotent ==
  (/\ reply.kind = "response"
   /\ reply.status \in SuccessStatuses
   /\ reply.data.t = "object"
   /\ outcome.kind = "returned") =>
    outcome.value =
      IF op = "ai" THEN NormalizeAIResponse(outcome.value)
      ELSE NormalizePlagiarismResponse(outcome.value)

C14_Witness ==
  /\ op = "ai"
  /\ reply.kind = "response"
  /\ reply.status = 200
  /\ reply.data.t = "object"
  /\ HasKey(reply.data, "winstonai")
  /\ reply.data.fields["winstonai"] = [ ai_score |-> 87, items |-> <<>>, cost |-> 1 ]
  /\ outcome.kind = "returned"
  /\ outcome.value = reply.data

(* =============================== the forms ============================= *)

\* most pages a PDF has
MaxPages == 3

\* most handleFileChange calls suspended at the same time
MaxInFlight == 2

UnsupportedPlagiarismMessage == 
  <<"P", "l", "e", "a", "s", "e", " ", "u", "p", "l", "o", "a", "d", " ", "a", " ", "P", "D", "F", " ", "o", "r", " ", "W", "o", "r", "d", " ", "d", "o", "c", "u", "m", "e", "n", "t", " ", "(", ".", "p", "d", "f", ",", " ", ".", "d", "o", "c", ",", " ", "o", "r", " ", ".", "d", "o", "c", "x", ")">>

EmptyResultMessage == 
  <<"C", "o", "u", "l", "d", " ", "n", "o", "t", " ", "e", "x", "t", "r", "a", "c", "t", " ", "t", "e", "x", "t", " ", "f", "r", "o", "m", " ", "t", "h", "e", " ", "d", "o", "c", "u", "m", "e", "n", "t", ".", " ", "P", "l", "e", "a", "s", "e", " ", "t", "r", "y", " ", "a", "g", "a", "i", "n", ".">>

PdfFailedMessage == 
  <<"F", "a", "i", "l", "e", "d", " ", "t", "o", " ", "e", "x", "t", "r", "a", "c", "t", " ", "t", "e", "x", "t", " ", "f", "r", "o", "m", " ", "P", "D", "F">>

WordReadErrorMessage == 
  <<"E", "r", "r", "o", "r", " ", "r", "e", "a", "d", "i", "n", "g", " ", "t", "h", "e", " ", "W", "o", "r", "d", " ", "d", "o", "c", "u", "m", "e", "n", "t", ".", " ", "P", "l", "e", "a", "s", "e", " ", "t", "r", "y", " ", "a", "g", "a", "i", "n", ".">>

UnsupportedAIMessage == 
  <<"P", "l", "e", "a", "s", "e", " ", "u", "p", "l", "o", "a", "d", " ", "a", " ", "W", "o", "r", "d", " ", "d", "o", "c", "u", "m", "e", "n", "t", " ", "(", ".", "d", "o", "c", " ", "o", "r", " ", ".", "d", "o", "c", "x", ")">>

\* stands for the message of the Error mammoth rejects with
MammothErrorMessage == 
  <<"C", "a", "n", "'", "t", " ", "f", "i", "n", "d", " ", "e", "n", "d", " ", "o", "f", " ", "c", "e", "n", "t", "r", "a", "l", " ", "d", "i", "r", "e", "c", "t", "o", "r", "y">>

\* textContent.items.map(item => item.str).join(' ')
RECURSIVE PageText(_)
PageText(items) ==
  IF items = <<>> THEN <<>>
  ELSE IF Len(items) = 1 THEN items[1]
  ELSE items[1] \o <<" ">> \o PageText(Tail(items))

\* mutation of AppendPage: the page is put in front
AppendPage_mutant(fullText, pageText) == pageText \o <<"\n">> \o fullText

\* fullText += pageText + '\n'
AppendPage(fullText, pageText) == fullText \o pageText \o <<"\n">>

\* the item lists a page of an enumerated PDF can have
PageChoices == { << <<"A">> >>, << <<"B">>, <<"C">> >>, << <<" ">> >> }

PdfFiles ==
  { File(PdfType, pages, <<>>, FALSE) : pages \in SeqsUpTo(PageChoices, MaxPages) }
  \cup { File(PdfType, << << <<"A">> >> >>, <<>>, TRUE) }

WordFiles ==
  { File(DocxType, <<>>, <<" ", "h", "i">>, FALSE),
    File(DocxType, <<>>, <<" ", "\n">>, FALSE),
    File(DocxType, <<>>, <<>>, TRUE),
    File(DocType, <<>>, <<"w">>, FALSE) }

OtherFiles == { File("text/plain", <<>>, <<"t">>, FALSE) }

Files == PdfFiles \cup WordFiles \cup OtherFiles

\* the text a form holds when it is mounted
InitialTexts == { <<>>, <<"o", "l", "d">> }

Job(file, stage, i, fullText) ==
  [ file |-> file, stage |-> stage, i |-> i, fullText |-> fullText ]

RemoveAt(seq, k) == SubSeq(seq, 1, k - 1) \o SubSeq(seq, k + 1, Len(seq))

Done(file, read, rejected, hasExtracted, extracted, setText, value, error) ==
  [ file |-> file, read |-> read, rejected |-> rejected,
    hasExtracted |-> hasExtracted, extracted |-> extracted,
    setText |-> setText, value |-> value, error |-> error ]

InitForms ==
  /\ env = Undefined
  /\ pc = "idle"
  /\ op = "none"
  /\ text = <<>>
  /\ title = <<>>
  /\ useMockData = FALSE
  /\ requests = <<>>
  /\ reply = NoReply
  /\ outcome = NoOutcome
  /\ form \in {"plagiarism", "ai"}
  /\ formText \in InitialTexts
  /\ selectedFile = NoFile
  /\ isProcessing = FALSE
  /\ validationError = Null
  /\ isLoading = FALSE
  /\ jobs = <<>>
  /\ done = NoDone

ClientUnchanged ==
  UNCHANGED <<env, pc, op, text, title, useMockData, requests, reply, outcome>>

(* ------------------------ PlagiarismDetectionForm ---------------------- *)

\* the catch and finally blocks of handleFileChange for an error with the
\* given message; k is the suspended call that ends, 0 when the call never
\* suspended
PlagiarismFails(k, file, read, rejected, hasExtracted, extracted, message) ==
  /\ validationError' = JSString(message)
  /\ selectedFile' = NoFile
  /\ isProcessing' = FALSE
  /\ jobs' = IF k = 0 THEN jobs ELSE RemoveAt(jobs, k)
  /\ done' = Done(file, read, rejected, hasExtracted, extracted, FALSE, <<>>, message)
  /\ UNCHANGED <<form, formText, isLoading>>

\* handleFileChange once extractedText is known
PlagiarismExtracted(k, file, extractedText) ==
  IF extractedText # <<>> /\ Trim(extractedText) # <<>>
  THEN /\ formText' = Trim(extractedText)
       /\ validationError' = Null
       /\ isProcessing' = FALSE
       /\ jobs' = RemoveAt(jobs, k)
       /\ done' = Done(file, TRUE, FALSE, TRUE, extractedText, TRUE,
                       Trim(extractedText), <<>>)
       /\ UNCHANGED <<form, selectedFile, isLoading>>
  ELSE PlagiarismFails(k, file, TRUE, FALSE, TRUE, extractedText, EmptyResultMessage)

\* handleFileChange of the plagiarism form up to its first await, or to its
\* end when the type is not supported
PlagiarismHandleFileChange(file) ==
  /\ form = "plagiarism"
  /\ ~(isLoading \/ isProcessing)
  /\ Len(jobs) < MaxInFlight
  /\ IF file.type = PdfType
     THEN /\ jobs' = Append(jobs, Job(file, "open", 0, <<>>))
          /\ isProcessing' = TRUE
          /\ selectedFile' = file
          /\ validationError' = Null
          /\ UNCHANGED <<form, formText, isLoading, done>>
     ELSE IF file.type = DocxType \/ file.type = DocType
     THEN /\ jobs' = Append(jobs, Job(file, "word", 0, <<>>))
          /\ isProcessing' = TRUE
          /\ selectedFile' = file
          /\ validationError' = Null
          /\ UNCHANGED <<form, formText, isLoading, done>>
     ELSE PlagiarismFails(0, file, FALSE, TRUE, FALSE, <<>>, UnsupportedPlagiarismMessage)
  /\ ClientUnchanged

\* extractTextFromPDF: the document is open, or getDocument rejected
PlagiarismPdfOpened ==
  /\ form = "plagiarism"
  /\ \E k \in 1..Len(jobs) :
       /\ jobs[k].stage = "open"
       /\ IF jobs[k].file.broken
          THEN PlagiarismFails(k, jobs[k].file, TRUE, FALSE, FALSE, <<>>, PdfFailedMessage)
          ELSE IF Len(jobs[k].file.pages) = 0
          THEN PlagiarismExtracted(k, jobs[k].file, Trim(<<>>))
          ELSE /\ jobs' = [ jobs EXCEPT ![k] = Job(jobs[k].file, "page", 1, <<>>) ]
               /\ UNCHANGED <<form, formText, selectedFile, isProcessing,
                              validationError, isLoading, done>>
  /\ ClientUnchanged

\* extractTextFromPDF: page i and its text content have arrived
PlagiarismPdfPageRead ==
  /\ form = "plagiarism"
  /\ \E k \in 1..Len(jobs) :
       /\ jobs[k].stage = "page"
       /\ LET file     == jobs[k].file
              fullText == AppendPage(jobs[k].fullText, PageText(file.pages[jobs[k].i]))
          IN
          IF jobs[k].i = Len(file.pages)
          THEN PlagiarismExtracted(k, file, Trim(fullText))
          ELSE /\ jobs' = [ jobs EXCEPT ![k] = Job(file, "page", jobs[k].i + 1, fullText) ]
               /\ UNCHANGED <<form, formText, selectedFile, isProcessing,
                              validationError, isLoading, done>>
  /\ ClientUnchanged

\* mammoth.extractRawText has settled in the plagiarism form
PlagiarismWordExtracted ==
  /\ form = "plagiarism"
  /\ \E k \in 1..Len(jobs) :
       /\ jobs[k].stage = "word"
       /\ IF jobs[k].file.broken
          THEN PlagiarismFails(k, jobs[k].file, TRUE, FALSE, FALSE, <<>>, MammothErrorMessage)
          ELSE PlagiarismExtracted(k, jobs[k].file, jobs[k].file.content)
  /\ ClientUnchanged

\* the effect on [text, validationError]: if (validationError) clear it
ClearValidationError ==
  /\ form = "plagiarism"
  /\ validationError # Null
  /\ validationError' = Null
  /\ UNCHANGED <<form, formText, selectedFile, isProcessing, isLoading, jobs, done>>
  /\ ClientUnchanged

(* ---------------------------- AIDetectionForm -------------------------- *)

\* handleFileChange of the AI form up to its await, or to its end when the
\* type is not a Word type; the change event brings a file other than the
\* ones still being read
AIHandleFileChange(file) ==
  /\ form = "ai"
  /\ ~isLoading
  /\ Len(jobs) < MaxInFlight
  /\ \A k \in 1..Len(jobs) : jobs[k].file # file
  /\ IF file.type = DocxType \/ file.type = DocType
     THEN /\ selectedFile' = file
          /\ jobs' = Append(jobs, Job(file, "word", 0, <<>>))
          /\ UNCHANGED <<form, formText, isProcessing, validationError, isLoading, done>>
     ELSE /\ formText' = UnsupportedAIMessage
          /\ selectedFile' = NoFile
          /\ done' = Done(file, FALSE, TRUE, FALSE, <<>>, TRUE, UnsupportedAIMessage, <<>>)
          /\ UNCHANGED <<form, isProcessing, validationError, isLoading, jobs>>
  /\ ClientUnchanged

\* mammoth.extractRawText has settled in the AI form
AIWordExtracted ==
  /\ form = "ai"
  /\ \E k \in 1..Len(jobs) :
       LET file == jobs[k].file
           content == file.content
       IN
       /\ jobs[k].stage = "word"
       /\ jobs' = RemoveAt(jobs, k)
       /\ IF file.broken
          THEN /\ formText' = WordReadErrorMessage
               /\ done' = Done(file, TRUE, FALSE, FALSE, <<>>, TRUE, WordReadErrorMessage, <<>>)
          ELSE IF content # <<>> /\ Trim(content) # <<>>
          THEN /\ formText' = content
               /\ done' = Done(file, TRUE, FALSE, TRUE, content, TRUE, content, <<>>)
          ELSE /\ formText' = EmptyResultMessage
               /\ done' = Done(file, TRUE, FALSE, TRUE, content, TRUE, EmptyResultMessage, <<>>)
       /\ UNCHANGED <<form, selectedFile, isProcessing, validationError, isLoading>>
  /\ ClientUnchanged

\* the parent sets the isLoading prop
ParentSetsLoading ==
  /\ form # "none"
  /\ isLoading' = ~isLoading
  /\ UNCHANGED <<form, formText, selectedFile, isProcessing, validationError, jobs, done>>
  /\ ClientUnchanged

NextForms ==
  \/ \E file \in Files : PlagiarismHandleFileChange(file)
  \/ PlagiarismPdfOpened
  \/ PlagiarismPdfPageRead
  \/ PlagiarismWordExtracted
  \/ ClearValidationError
  \/ \E file \in Files : AIHandleFileChange(file)
  \/ AIWordExtracted
  \/ ParentSetsLoading

SpecForms == InitForms /\ [][NextForms]_vars

(* ------------------------- properties of the forms --------------------- *)

\* every page's text followed by one newline, in page order
RECURSIVE PagesInOrder(_)
PagesInOrder(pages) ==
  IF pages = <<>> THEN <<>>
  ELSE PageText(Head(pages)) \o <<"\n">> \o PagesInOrder(Tail(pages))

\* C11 as stated: extraction of a PDF yields every page's text followed by
\* one newline, in increasing page order (pages A, B, C yield "A\nB\nC\n").
C11_PagesEachFollowedByNewline ==
  (done.file.type = PdfType /\ done.hasExtracted) =>
    done.extracted = PagesInOrder(done.file.pages)

\* C11 as amended: extraction of a PDF yields every page's text followed by
\* one newline, in increasing page order, with the white space at both ends
\* of the whole removed (pages A, B, C yield "A\nB\nC"); page i + 1 is read
\* only once page i has arrived, so no other order of arrival exists.
C11_PagesInOrderTrimmed ==
  /\ (done.file.type = PdfType /\ done.hasExtracted) =>
       done.extracted = Trim(PagesInOrder(done.file.pages))
  /\ \A k \in 1..Len(jobs) :
       jobs[k].stage = "page" =>
         jobs[k].fullText = PagesInOrder(SubSeq(jobs[k].file.pages, 1, jobs[k].i - 1))

C11_Witness ==
  /\ form = "plagiarism"
  /\ done.file.type = PdfType
  /\ done.hasExtracted
  /\ done.file.pages = << << <<"A">> >>, << <<"B">>, <<"C">> >>, << <<"A">> >> >>
  /\ done.extracted = << "A", "\n", "B", " ", "C", "\n", "A" >>
  /\ formText = done.extracted

SupportedTypes == { PdfType, DocxType, DocType }

\* a readable document of a supported type without any text
BlankDocument(file) ==
  /\ file.type \in SupportedTypes
  /\ ~file.broken
  /\ IF file.type = PdfType THEN Trim(PagesInOrder(file.pages)) = <<>>
     ELSE Trim(file.content) = <<>>

\* C12: the extraction of an empty or white-space document fails with the
\* empty-result error in either form, and sets no text.
C12_BlankDocumentSetsNoText ==
  (done.hasExtracted /\ BlankDocument(done.file)) =>
    /\ ~done.setText
    /\ done.error = EmptyResultMessage

\* C13: a document of an unsupported type is rejected with an error, its
\* bytes unread and the text untouched; a document of a supported type is
\* never rejected as unsupported.
C13_UnsupportedTypeRejected ==
  done.file # NoFile =>
    /\ done.file.type \notin SupportedTypes =>
         /\ done.rejected
         /\ done.error # <<>>
         /\ ~done.read
         /\ ~done.hasExtracted
         /\ ~done.setText
    /\ done.file.type \in SupportedTypes => ~done.rejected

\* C15: at most one extraction is in flight in a form, and once none is in
\* flight the text last set comes from the file recorded as selectedFile.
C15_LatestSelectionWins ==
  /\ Len(jobs) <= 1
  /\ (jobs = <<>> /\ selectedFile # NoFile) =>
       /\ done.file = selectedFile
       /\ done.setText => formText = done.value

====
